---- MODULE Spec2Model ----
(***************************************************************************)
(* State-machine model of the file-server backend: the users and files     *)
(* tables (config/db.js), the per-user upload directories, the register,   *)
(* login and /me handlers (routes/auth.js) and the upload / list /         *)
(* download / delete / rename handlers (routes/files.js, the second half   *)
(* of src/routes/auth.js).                                                 *)
(*                                                                         *)
(* Node runs one handler at a time: a synchronous handler is one atomic    *)
(* action.  A handler is split only where the code awaits (bcrypt.hash in  *)
(* register, bcrypt.compare in login), where a middleware works            *)
(* asynchronously before the handler (multer writing the uploaded files to *)
(* disk) and where the handler leaves work behind (the transfer started by *)
(* res.download).                                                          *)
(*                                                                         *)
(* Faults: a file write of multer may fail, an INSERT INTO files may throw *)
(* and fs.unlinkSync may throw; each is a nondeterministic choice of the   *)
(* action it belongs to.                                                   *)
(***************************************************************************)
EXTENDS Integers, Sequences, FiniteSets, TLC

VARIABLES
    users,      \* the users table: id -> row
    userSeq,    \* AUTOINCREMENT counter of users (sqlite_sequence)
    files,      \* the files table: id -> row
    fileSeq,    \* AUTOINCREMENT counter of files (sqlite_sequence)
    disk,       \* uploads/<user id>/<stored name> -> bytes
    now,        \* the clock: Date.now() and CURRENT_TIMESTAMP
    tokens,     \* the tokens issued so far (held by clients)
    regs,       \* register and login requests awaiting bcrypt
    ups,        \* upload requests inside multer (files being written)
    downs,      \* download requests whose stream has not opened its file yet
    resp,       \* the last response sent
    deleted,    \* history: ids of the files whose delete answered 200
    sent        \* history: id of a file in the catalog -> bytes and name uploaded

vars == <<users, userSeq, files, fileSeq, disk, now, tokens, regs, ups,
          downs, resp, deleted, sent>>

-----------------------------------------------------------------------------
(* Bounds of the model *)

MaxNow == 1          \* the clock runs from 0 to MaxNow
MaxRnd == 1          \* Math.random() draws from 0..MaxRnd
MaxFileSeq == 2      \* at most this many files rows are ever inserted
RegSlots == 2        \* register requests that may be awaiting bcrypt.hash
UpSlots == 2         \* upload requests that may be inside multer
TenantRnd == 0       \* Math.random() draws from 0..TenantRnd in SpecTenants
TenantSlots == 1     \* upload requests inside multer in SpecTenants
MaxDowns == 1        \* download requests that may be waiting for their stream
MaxSessionNow == 3   \* the clock runs from 0 to MaxSessionNow in SpecSession
MaxTokens == 3       \* tokens issued in SpecSession

(* Program constants *)

MIN_PASSWORD == 6    \* password.length < 6 is rejected
MAX_FILE_SIZE == 2   \* limits.fileSize (10485760 in the source, scaled)
MAX_COUNT == 2       \* upload.array('files', 10), scaled
TOKEN_LIFETIME == 2  \* expiresIn: '7d', scaled to clock units

(* Inputs *)

Usernames == {"", "alice", "bob"}
Emails == {"a@x.com", "b@x.com"}
Passwords == {"12345", "secret1"}
OriginalNames == {"notes.txt"}
NewNames == {"", "todo.txt"}
Mimetypes == {"text/plain"}
Bytes == {<<1>>, <<2, 2>>, <<3, 3, 3>>}
FileIds == 1..MaxFileSeq

None == [op |-> "none"]

-----------------------------------------------------------------------------
(* Helpers *)

Range(s) == {s[i] : i \in DOMAIN s}

Put(f, k, v) == [x \in DOMAIN f \cup {k} |-> IF x = k THEN v ELSE f[x]]

Drop(f, ks) == [x \in DOMAIN f \ ks |-> f[x]]

Empty == [x \in {} |-> 0]

-----------------------------------------------------------------------------
(* bcrypt and jsonwebtoken *)

Hash(password) == [alg |-> "bcrypt", rounds |-> 10, of |-> password]

Sign(id, username, email) ==
    [id |-> id, username |-> username, email |-> email,
     exp |-> now + TOKEN_LIFETIME]

\* The token was signed by this server and has not expired.
authenticateToken(t) == t \in tokens /\ now < t.exp

\* A request to a route behind authenticateToken whose token is not valid:
\* the middleware answers and the handler never runs.
Unauthorized(t) ==
    /\ ~authenticateToken(t)
    /\ resp' = [op |-> "auth", token |-> t,
                error |-> IF t \in tokens THEN "TokenExpired"
                          ELSE "InvalidToken"]
    /\ UNCHANGED <<users, userSeq, files, fileSeq, disk, now, tokens, regs,
                   ups, downs, deleted, sent>>

-----------------------------------------------------------------------------
(* The users table *)

\* Mutant: the existence check looks at the email alone.
existingUser_emailOnly(email, username) ==
    {id \in DOMAIN users : users[id].email = email}

\* SELECT * FROM users WHERE email = ? OR username = ?
existingUser(email, username) ==
    {id \in DOMAIN users :
        users[id].email = email \/ users[id].username = username}

\* The UNIQUE constraints of users.username and users.email
UsersUnique(username, email) ==
    \A id \in DOMAIN users :
        users[id].username # username /\ users[id].email # email

-----------------------------------------------------------------------------
(* POST /register *)

\* The handler up to the await: validation and the existence check.
Register(s, username, email, password) ==
    /\ regs[s] = None
    /\ IF username = "" \/ email = "" \/ password = ""
       THEN /\ resp' = [op |-> "register", status |-> 400,
                        error |-> "All fields are required",
                        username |-> username, email |-> email]
            /\ UNCHANGED regs
       ELSE IF Len(password) < MIN_PASSWORD
       THEN /\ resp' = [op |-> "register", status |-> 400,
                        error |-> "Password must be at least 6 characters",
                        username |-> username, email |-> email]
            /\ UNCHANGED regs
       ELSE IF existingUser(email, username) # {}
       THEN /\ resp' = [op |-> "register", status |-> 400,
                        error |-> "User already exists",
                        username |-> username, email |-> email]
            /\ UNCHANGED regs
       ELSE /\ regs' = [regs EXCEPT ![s] =
                           [op |-> "register", username |-> username,
                            email |-> email, password |-> password]]
            /\ UNCHANGED resp
    /\ UNCHANGED <<users, userSeq, files, fileSeq, disk, now, tokens, ups,
                   downs, deleted, sent>>

\* bcrypt.hash has resolved: the INSERT, the token, the response.
RegisterInsert(s) ==
    /\ regs[s].op = "register"
    /\ LET r == regs[s]
           id == userSeq + 1
       IN  IF UsersUnique(r.username, r.email)
           THEN /\ users' = Put(users, id,
                                [id |-> id, username |-> r.username,
                                 email |-> r.email,
                                 password |-> Hash(r.password)])
                /\ userSeq' = id
                /\ tokens' = tokens \cup {Sign(id, r.username, r.email)}
                /\ resp' = [op |-> "register", status |-> 201,
                            error |-> "",
                            username |-> r.username, email |-> r.email,
                            id |-> id,
                            token |-> Sign(id, r.username, r.email)]
           ELSE /\ resp' = [op |-> "register", status |-> 500,
                            error |-> "Server error",
                            username |-> r.username, email |-> r.email]
                /\ UNCHANGED <<users, userSeq, tokens>>
    /\ regs' = [regs EXCEPT ![s] = None]
    /\ UNCHANGED <<files, fileSeq, disk, now, ups, downs, deleted, sent>>

-----------------------------------------------------------------------------
(* POST /login *)

\* Mutant: every password is accepted.
compare_any(password, hash) == hash.alg = "bcrypt"

\* bcrypt.compare(password, user.password)
compare(password, hash) == hash = Hash(password)

\* SELECT * FROM users WHERE email = ?
userByEmail(email) == {id \in DOMAIN users : users[id].email = email}

\* Mutant: a login revokes the tokens the user held before.
issue_revoking(token) == {t \in tokens : t.id # token.id} \cup {token}

\* Tokens are not stored by the server: issuing one adds it to those the
\* clients hold and touches no other.
issue(token) == tokens \cup {token}

\* The handler up to the await: validation and the lookup by email.
Login(s, email, password) ==
    /\ regs[s] = None
    /\ IF email = "" \/ password = ""
       THEN /\ resp' = [op |-> "login", status |-> 400,
                        error |-> "Email and password are required",
                        email |-> email]
            /\ UNCHANGED regs
       ELSE IF userByEmail(email) = {}
       THEN /\ resp' = [op |-> "login", status |-> 401,
                        error |-> "Invalid credentials", email |-> email]
            /\ UNCHANGED regs
       ELSE /\ regs' = [regs EXCEPT ![s] =
                           [op |-> "login", email |-> email,
                            password |-> password,
                            user |-> users[CHOOSE id \in userByEmail(email) :
                                              TRUE]]]
            /\ UNCHANGED resp
    /\ UNCHANGED <<users, userSeq, files, fileSeq, disk, now, tokens, ups,
                   downs, deleted, sent>>

\* bcrypt.compare has resolved: the token and the response.
LoginCompare(s) ==
    /\ regs[s].op = "login"
    /\ LET r == regs[s]
           token == Sign(r.user.id, r.user.username, r.user.email)
       IN  IF ~compare(r.password, r.user.password)
           THEN /\ resp' = [op |-> "login", status |-> 401,
                            error |-> "Invalid credentials",
                            email |-> r.email]
                /\ UNCHANGED tokens
           ELSE /\ tokens' = issue(token)
                /\ resp' = [op |-> "login", status |-> 200, error |-> "",
                            email |-> r.email, token |-> token,
                            user |-> [id |-> r.user.id,
                                      username |-> r.user.username,
                                      email |-> r.user.email]]
    /\ regs' = [regs EXCEPT ![s] = None]
    /\ UNCHANGED <<users, userSeq, files, fileSeq, disk, now, ups, downs,
                   deleted, sent>>

-----------------------------------------------------------------------------
(* GET /me *)

\* SELECT id, username, email, created_at FROM users WHERE id = ?
Me(t) ==
    /\ authenticateToken(t)
    /\ IF t.id \notin DOMAIN users
       THEN resp' = [op |-> "me", token |-> t, status |-> 404,
                     error |-> "User not found"]
       ELSE resp' = [op |-> "me", token |-> t, status |-> 200, error |-> "",
                     id |-> users[t.id].id,
                     username |-> users[t.id].username,
                     email |-> users[t.id].email]
    /\ UNCHANGED <<users, userSeq, files, fileSeq, disk, now, tokens, regs,
                   ups, downs, deleted, sent>>

-----------------------------------------------------------------------------
(* The files table and the upload directories *)

\* Mutant: the lookup forgets AND user_id = ?.
getOwned_anyUser(fileId, userId) ==
    {id \in DOMAIN files : id = fileId}

\* SELECT * FROM files WHERE id = ? AND user_id = ?
getOwned(fileId, userId) ==
    {id \in DOMAIN files : id = fileId /\ files[id].user_id = userId}

\* Mutant: one upload directory for all users.
filePath_flat(userId, filename) == <<0, filename>>

\* path.join(uploadsDir, req.user.id.toString(), file.filename)
filePath(userId, filename) == <<userId, filename>>

\* multer's filename callback: Date.now() + '-' + random + '-' + originalname
storedName(rnd, originalname) == <<now, rnd, originalname>>

\* The files an upload request has on disk so far.
writtenPaths(u) == {filePath(u.user, w.filename) : w \in Range(u.done)}

\* The files the upload requests inside multer have written so far.
RECURSIVE sumPending(_)
sumPending(S) ==
    IF S = {} THEN 0
    ELSE LET s == CHOOSE x \in S : TRUE
         IN  (IF ups[s] = None THEN 0 ELSE Len(ups[s].done))
             + sumPending(S \ {s})

-----------------------------------------------------------------------------
(* POST /upload: authenticateToken, upload.array('files', 10), the handler *)

\* The request arrives with a valid token; its multipart body follows as a
\* stream of file parts.
UploadStart(s, t) ==
    /\ authenticateToken(t)
    /\ ups[s] = None
    /\ ups' = [ups EXCEPT ![s] = [op |-> "upload", user |-> t.id,
                                  done |-> <<>>]]
    /\ UNCHANGED <<users, userSeq, files, fileSeq, disk, now, tokens, regs,
                   downs, resp, deleted, sent>>

\* multer aborts the request: it removes the request's files from disk, the
\* error middleware answers and the handler never runs.
multerAbort(s, gone, status, error) ==
    /\ disk' = Drop(disk, writtenPaths(ups[s]) \cup gone)
    /\ resp' = [op |-> "upload", user |-> ups[s].user, status |-> status,
                error |-> error, wrote |-> {}]
    /\ ups' = [ups EXCEPT ![s] = None]

\* The next file part f of the request reaches multer.  One file more than
\* maxCount aborts with LIMIT_UNEXPECTED_FILE, a file over limits.fileSize
\* with LIMIT_FILE_SIZE (its partial file is removed too), a failing write
\* with the write's error; otherwise the file is stored under a fresh name.
MulterWrite(s, f, rnd) ==
    /\ ups[s] # None
    /\ LET u == ups[s]
       IN  \E writeFails \in BOOLEAN :
             LET name == storedName(rnd, f.originalname)
             IN  IF Len(u.done) >= MAX_COUNT
                 THEN multerAbort(s, {}, 400, "Unexpected field")
                 ELSE IF Len(f.bytes) > MAX_FILE_SIZE
                 THEN multerAbort(s, {filePath(u.user, name)}, 400,
                                  "File size too large")
                 ELSE IF writeFails
                 THEN multerAbort(s, {}, 500, "Something went wrong!")
                 ELSE /\ fileSeq + sumPending(1..UpSlots) < MaxFileSeq
                      /\ disk' = Put(disk, filePath(u.user, name), f.bytes)
                      /\ ups' = [ups EXCEPT ![s] =
                                    [u EXCEPT !.done = Append(u.done,
                                          [filename |-> name,
                                           originalname |-> f.originalname,
                                           size |-> Len(f.bytes),
                                           mimetype |-> f.mimetype,
                                           bytes |-> f.bytes])]]
                      /\ UNCHANGED resp
    /\ UNCHANGED <<users, userSeq, files, fileSeq, now, tokens, regs, downs,
                   deleted, sent>>

\* Mutant: INTEGER PRIMARY KEY without AUTOINCREMENT, one more than the
\* largest id in the table.
lastInsertRowid_reuse(i) ==
    LET top == IF DOMAIN files = {} THEN 0
               ELSE CHOOSE m \in DOMAIN files : \A x \in DOMAIN files : x <= m
    IN  top + i

\* id INTEGER PRIMARY KEY AUTOINCREMENT: the id of the i-th row inserted
\* from this state on is one more than the largest id ever assigned.
lastInsertRowid(i) == fileSeq + i

\* Mutant: the row's stored name is built anew instead of taken from the
\* file multer stored.
fileRow_newName(u, i) ==
    [id |-> lastInsertRowid(i), user_id |-> u.user,
     filename |-> storedName(0, u.done[i].originalname),
     original_name |-> u.done[i].originalname,
     size |-> u.done[i].size, mimetype |-> u.done[i].mimetype,
     upload_date |-> now]

\* The row stmt.run inserts for the i-th file of the request.
fileRow(u, i) ==
    [id |-> lastInsertRowid(i), user_id |-> u.user,
     filename |-> u.done[i].filename,
     original_name |-> u.done[i].originalname,
     size |-> u.done[i].size, mimetype |-> u.done[i].mimetype,
     upload_date |-> now]

\* Mutant: only the first file of the request gets a row.
insertFiles_first(u, k) ==
    IF k = 0 THEN files
    ELSE Put(files, lastInsertRowid(1), fileRow(u, 1))

\* The files table after the first k inserts of the request.
insertFiles(u, k) ==
    LET new == {lastInsertRowid(i) : i \in 1..k}
        ix(id) == CHOOSE i \in 1..k : lastInsertRowid(i) = id
    IN  [id \in DOMAIN files \cup new |->
            IF id \in new THEN fileRow(u, ix(id)) ELSE files[id]]

\* History: what was uploaded as each of the first k files of the request.
recordSent(u, k) ==
    LET new == {lastInsertRowid(i) : i \in 1..k}
        ix(id) == CHOOSE i \in 1..k : lastInsertRowid(i) = id
    IN  [id \in DOMAIN sent \cup new |->
            IF id \in new
            THEN [bytes |-> u.done[ix(id)].bytes,
                  name |-> u.done[ix(id)].originalname]
            ELSE sent[id]]

\* The body has ended and every file is stored: the handler runs, one INSERT
\* per file, each committed on its own.  k is the number of inserts that
\* succeed; k < n means insert k+1 threw.
UploadHandler(s) ==
    /\ ups[s] # None
    /\ LET u == ups[s]
           n == Len(u.done)
           wrote == {w.filename : w \in Range(u.done)}
       IN  IF n = 0
           THEN /\ resp' = [op |-> "upload", user |-> u.user, status |-> 400,
                            error |-> "No files uploaded", wrote |-> {}]
                /\ UNCHANGED <<files, fileSeq, sent>>
           ELSE \E k \in 0..n :
                  /\ files' = insertFiles(u, k)
                  /\ fileSeq' = fileSeq + k
                  /\ sent' = recordSent(u, k)
                  /\ resp' = IF k = n
                             THEN [op |-> "upload", user |-> u.user,
                                   status |-> 201, error |-> "",
                                   wrote |-> wrote,
                                   files |-> [i \in 1..n |->
                                      [id |-> lastInsertRowid(i),
                                       filename |-> u.done[i].filename,
                                       originalName |->
                                          u.done[i].originalname,
                                       size |-> u.done[i].size,
                                       mimetype |-> u.done[i].mimetype]]]
                             ELSE [op |-> "upload", user |-> u.user,
                                   status |-> 500,
                                   error |-> "Failed to upload files",
                                   wrote |-> wrote]
    /\ ups' = [ups EXCEPT ![s] = None]
    /\ UNCHANGED <<users, userSeq, disk, now, tokens, regs, downs, deleted>>

-----------------------------------------------------------------------------
(* GET /download/:id *)

\* The handler: the lookup, fs.existsSync, res.download.  res.download only
\* starts the transfer: the stream opens the file in a later turn of the
\* event loop, after any handler that was waiting.
Download(t, fileId) ==
    /\ authenticateToken(t)
    /\ IF getOwned(fileId, t.id) = {}
       THEN /\ resp' = [op |-> "download", user |-> t.id, id |-> fileId,
                        status |-> 404, error |-> "File not found"]
            /\ UNCHANGED downs
       ELSE LET file == files[fileId]
                p == filePath(t.id, file.filename)
            IN  IF p \notin DOMAIN disk
                THEN /\ resp' = [op |-> "download", user |-> t.id,
                                 id |-> fileId, status |-> 404,
                                 error |-> "File not found on server"]
                     /\ UNCHANGED downs
                ELSE /\ Cardinality(downs) < MaxDowns
                     /\ downs' = downs \cup
                           {[user |-> t.id, id |-> fileId, path |-> p,
                             name |-> file.original_name]}
                     /\ UNCHANGED resp
    /\ UNCHANGED <<users, userSeq, files, fileSeq, disk, now, tokens, regs,
                   ups, deleted, sent>>

\* The stream of res.download opens the file.  When the file is gone by now
\* the error goes to next(err), and the error middleware answers 500.
DownloadSend(d) ==
    /\ d \in downs
    /\ downs' = downs \ {d}
    /\ IF d.path \in DOMAIN disk
       THEN resp' = [op |-> "download", user |-> d.user, id |-> d.id,
                     status |-> 200, error |-> "", name |-> d.name,
                     bytes |-> disk[d.path]]
       ELSE resp' = [op |-> "download", user |-> d.user, id |-> d.id,
                     status |-> 500, error |-> "Something went wrong!"]
    /\ UNCHANGED <<users, userSeq, files, fileSeq, disk, now, tokens, regs,
                   ups, deleted, sent>>

-----------------------------------------------------------------------------
(* DELETE /:id *)

\* Mutant: the row is deleted although fs.unlinkSync threw.
DeleteFile_converge(t, fileId) ==
    /\ authenticateToken(t)
    /\ IF getOwned(fileId, t.id) = {}
       THEN /\ resp' = [op |-> "delete", user |-> t.id, id |-> fileId,
                        status |-> 404, error |-> "File not found"]
            /\ UNCHANGED <<files, disk, deleted, sent>>
       ELSE LET p == filePath(t.id, files[fileId].filename)
            IN  \E unlinkFails \in BOOLEAN :
                  /\ disk' = IF unlinkFails THEN disk ELSE Drop(disk, {p})
                  /\ files' = Drop(files, {fileId})
                  /\ deleted' = deleted \cup {fileId}
                  /\ sent' = Drop(sent, {fileId})
                  /\ resp' = [op |-> "delete", user |-> t.id, id |-> fileId,
                              status |-> 200, error |-> ""]
    /\ UNCHANGED <<users, userSeq, fileSeq, now, tokens, regs, ups, downs>>

\* unlinkFails: fs.unlinkSync throws (the catch answers 500).
DeleteFile(t, fileId) ==
    /\ authenticateToken(t)
    /\ IF getOwned(fileId, t.id) = {}
       THEN /\ resp' = [op |-> "delete", user |-> t.id, id |-> fileId,
                        status |-> 404, error |-> "File not found"]
            /\ UNCHANGED <<files, disk, deleted, sent>>
       ELSE LET p == filePath(t.id, files[fileId].filename)
            IN  \E unlinkFails \in BOOLEAN :
                  IF p \in DOMAIN disk /\ unlinkFails
                  THEN /\ resp' = [op |-> "delete", user |-> t.id,
                                   id |-> fileId, status |-> 500,
                                   error |-> "Failed to delete file"]
                       /\ UNCHANGED <<files, disk, deleted, sent>>
                  ELSE /\ disk' = Drop(disk, {p})
                       /\ files' = Drop(files, {fileId})
                       /\ deleted' = deleted \cup {fileId}
                       /\ sent' = Drop(sent, {fileId})
                       /\ resp' = [op |-> "delete", user |-> t.id,
                                   id |-> fileId, status |-> 200,
                                   error |-> ""]
    /\ UNCHANGED <<users, userSeq, fileSeq, now, tokens, regs, ups, downs>>

-----------------------------------------------------------------------------
(* PUT /rename/:id *)

\* Mutant: the UPDATE has no WHERE id = ?.
updateName_all(fileId, newName) ==
    [id \in DOMAIN files |-> [files[id] EXCEPT !.original_name = newName]]

\* UPDATE files SET original_name = ? WHERE id = ?
updateName(fileId, newName) ==
    [id \in DOMAIN files |->
        IF id = fileId THEN [files[id] EXCEPT !.original_name = newName]
        ELSE files[id]]

\* Mutant: no lookup; the UPDATE is an upsert that writes the row when it
\* is missing.
Rename_upsert(t, fileId, newName) ==
    /\ authenticateToken(t)
    /\ files' = IF fileId \in DOMAIN files THEN updateName(fileId, newName)
                ELSE Put(files, fileId,
                         [id |-> fileId, user_id |-> t.id,
                          original_name |-> newName])
    /\ resp' = [op |-> "rename", user |-> t.id, id |-> fileId,
                status |-> 200, error |-> "", newName |-> newName]
    /\ UNCHANGED <<users, userSeq, fileSeq, disk, now, tokens, regs, ups,
                   downs, deleted, sent>>

\* Mutant: the new name is checked after the UPDATE.
Rename_lateCheck(t, fileId, newName) ==
    /\ authenticateToken(t)
    /\ IF getOwned(fileId, t.id) = {}
       THEN /\ resp' = [op |-> "rename", user |-> t.id, id |-> fileId,
                        status |-> 404, error |-> "File not found"]
            /\ UNCHANGED files
       ELSE /\ files' = updateName(fileId, newName)
            /\ resp' = IF newName = ""
                       THEN [op |-> "rename", user |-> t.id, id |-> fileId,
                             status |-> 400,
                             error |-> "New name is required"]
                       ELSE [op |-> "rename", user |-> t.id, id |-> fileId,
                             status |-> 200, error |-> "",
                             newName |-> newName]
    /\ UNCHANGED <<users, userSeq, fileSeq, disk, now, tokens, regs, ups,
                   downs, deleted, sent>>

\* The handler is synchronous: lookup and UPDATE happen in one turn.
Rename(t, fileId, newName) ==
    /\ authenticateToken(t)
    /\ IF newName = ""
       THEN /\ resp' = [op |-> "rename", user |-> t.id, id |-> fileId,
                        status |-> 400, error |-> "New name is required"]
            /\ UNCHANGED files
       ELSE IF getOwned(fileId, t.id) = {}
       THEN /\ resp' = [op |-> "rename", user |-> t.id, id |-> fileId,
                        status |-> 404, error |-> "File not found"]
            /\ UNCHANGED files
       ELSE /\ files' = updateName(fileId, newName)
            /\ resp' = [op |-> "rename", user |-> t.id, id |-> fileId,
                        status |-> 200, error |-> "", newName |-> newName]
    /\ UNCHANGED <<users, userSeq, fileSeq, disk, now, tokens, regs, ups,
                   downs, deleted, sent>>

-----------------------------------------------------------------------------
(* GET / *)

\* ... WHERE user_id = ? ORDER BY upload_date DESC: any order of the user's
\* rows that is descending in upload_date (SQL leaves ties unordered).
listings(userId) ==
    LET mine == {id \in DOMAIN files : files[id].user_id = userId}
        n == Cardinality(mine)
    IN  {q \in [1..n -> mine] :
            /\ \A i, j \in 1..n : i # j => q[i] # q[j]
            /\ \A i, j \in 1..n :
                  i < j => files[q[i]].upload_date >= files[q[j]].upload_date}

ListFiles(t) ==
    /\ authenticateToken(t)
    /\ \E q \in listings(t.id) :
          resp' = [op |-> "list", user |-> t.id, status |-> 200,
                   error |-> "",
                   files |-> [i \in DOMAIN q |->
                      [id |-> q[i], filename |-> files[q[i]].filename,
                       original_name |-> files[q[i]].original_name,
                       size |-> files[q[i]].size,
                       mimetype |-> files[q[i]].mimetype,
                       upload_date |-> files[q[i]].upload_date]]]
    /\ UNCHANGED <<users, userSeq, files, fileSeq, disk, now, tokens, regs,
                   ups, downs, deleted, sent>>

-----------------------------------------------------------------------------
(* The clock *)

Tick ==
    /\ now < MaxNow
    /\ now' = now + 1
    /\ UNCHANGED <<users, userSeq, files, fileSeq, disk, tokens, regs, ups,
                   downs, resp, deleted, sent>>

\* The clock of SpecSession, which runs past the lifetime of a token.
SessionTick ==
    /\ now < MaxSessionNow
    /\ now' = now + 1
    /\ UNCHANGED <<users, userSeq, files, fileSeq, disk, tokens, regs, ups,
                   downs, resp, deleted, sent>>

-----------------------------------------------------------------------------

Init ==
    /\ users = Empty
    /\ userSeq = 0
    /\ files = Empty
    /\ fileSeq = 0
    /\ disk = Empty
    /\ now = 0
    /\ tokens = {}
    /\ regs = [s \in 1..RegSlots |-> None]
    /\ ups = [s \in 1..UpSlots |-> None]
    /\ downs = {}
    /\ resp = None
    /\ deleted = {}
    /\ sent = Empty

\* The state after alice has registered at time 0.
alice == [id |-> 1, username |-> "alice", email |-> "a@x.com",
          password |-> Hash("secret1")]
bob == [id |-> 2, username |-> "bob", email |-> "b@x.com",
        password |-> Hash("secret1")]

aliceToken == [id |-> 1, username |-> "alice", email |-> "a@x.com",
               exp |-> TOKEN_LIFETIME]
bobToken == [id |-> 2, username |-> "bob", email |-> "b@x.com",
             exp |-> TOKEN_LIFETIME]

InitFiles ==
    /\ users = (1 :> alice)
    /\ userSeq = 1
    /\ files = Empty
    /\ fileSeq = 0
    /\ disk = Empty
    /\ now = 0
    /\ tokens = {aliceToken}
    /\ regs = [s \in 1..RegSlots |-> None]
    /\ ups = [s \in 1..UpSlots |-> None]
    /\ downs = {}
    /\ resp = None
    /\ deleted = {}
    /\ sent = Empty

\* The state after alice and bob have registered at time 0.
InitTenants ==
    /\ users = (1 :> alice) @@ (2 :> bob)
    /\ userSeq = 2
    /\ files = Empty
    /\ fileSeq = 0
    /\ disk = Empty
    /\ now = 0
    /\ tokens = {aliceToken, bobToken}
    /\ regs = [s \in 1..RegSlots |-> None]
    /\ ups = [s \in 1..UpSlots |-> None]
    /\ downs = {}
    /\ resp = None
    /\ deleted = {}
    /\ sent = Empty

UploadFile == [originalname : OriginalNames, bytes : Bytes,
               mimetype : Mimetypes]

NextAuth ==
    \/ \E s \in 1..RegSlots, u \in Usernames, e \in Emails, p \in Passwords :
          Register(s, u, e, p)
    \/ \E s \in 1..RegSlots : RegisterInsert(s)
    \/ \E s \in 1..RegSlots, e \in Emails \cup {""}, p \in Passwords :
          Login(s, e, p)
    \/ \E s \in 1..RegSlots : LoginCompare(s)
    \/ \E t \in tokens : Me(t)
    \/ Tick

NextFiles ==
    \/ \E s \in 1..UpSlots, t \in tokens : UploadStart(s, t)
    \/ \E s \in 1..UpSlots, f \in UploadFile, rnd \in 0..MaxRnd :
          MulterWrite(s, f, rnd)
    \/ \E s \in 1..UpSlots : UploadHandler(s)
    \/ \E t \in tokens : ListFiles(t)
    \/ \E t \in tokens, id \in FileIds : Download(t, id)
    \/ \E d \in downs : DownloadSend(d)
    \/ \E t \in tokens, id \in FileIds : DeleteFile(t, id)
    \/ \E t \in tokens, id \in FileIds, n \in NewNames : Rename(t, id, n)

NextTenants ==
    \/ \E s \in 1..TenantSlots, t \in tokens : UploadStart(s, t)
    \/ \E s \in 1..TenantSlots, f \in UploadFile, rnd \in 0..TenantRnd :
          MulterWrite(s, f, rnd)
    \/ \E s \in 1..TenantSlots : UploadHandler(s)
    \/ \E t \in tokens : ListFiles(t)
    \/ \E t \in tokens, id \in FileIds : Download(t, id)
    \/ \E d \in downs : DownloadSend(d)
    \/ \E t \in tokens, id \in FileIds : DeleteFile(t, id)
    \/ \E t \in tokens, id \in FileIds, n \in NewNames : Rename(t, id, n)

\* Both routers from the empty database over a clock that outlives the
\* tokens: alice and bob register and log in, one request at a time inside
\* bcrypt; one one-file upload and its delete stand for the file operations.
NextSession ==
    \/ \E c \in {<<"alice", "a@x.com">>, <<"bob", "b@x.com">>} :
          Cardinality(tokens) < MaxTokens /\ Register(1, c[1], c[2], "secret1")
    \/ RegisterInsert(1)
    \/ \E e \in Emails, p \in Passwords :
          Cardinality(tokens) < MaxTokens /\ Login(1, e, p)
    \/ LoginCompare(1)
    \/ \E t \in tokens : Me(t)
    \/ \E t \in tokens : Unauthorized(t)
    \/ \E t \in tokens : fileSeq = 0 /\ UploadStart(1, t)
    \/ \E f \in {x \in UploadFile : Len(x.bytes) = 1} :
          ups[1] # None /\ ups[1].done = <<>> /\ MulterWrite(1, f, 0)
    \/ UploadHandler(1)
    \/ \E t \in tokens, id \in FileIds : DeleteFile(t, id)
    \/ SessionTick

\* The auth router, from the empty database.
SpecAuth == Init /\ [][NextAuth]_vars

\* Tokens from issue to expiry.
SpecSession == Init /\ [][NextSession]_vars

\* The files router with one registered user, all requests within one clock
\* unit (stored names then differ by the random number alone).
SpecFiles == InitFiles /\ [][NextFiles]_vars

\* The files router with two registered users.
SpecTenants == InitTenants /\ [][NextTenants]_vars

-----------------------------------------------------------------------------
(* Vocabulary of the claims *)

FileOps == {"download", "delete", "rename"}

\* The answer 404 'File not found' to request op of user u on file id f.
NotFound(op, u, f) ==
    [op |-> op, user |-> u, id |-> f, status |-> 404,
     error |-> "File not found"]

ValidationError(r) ==
    /\ r.status = 400
    /\ r.error \in {"All fields are required",
                    "Password must be at least 6 characters",
                    "New name is required", "No files uploaded"}

ConflictError(r) == r.status = 400 /\ r.error = "User already exists"

\* No upload request is inside multer.
Quiescent == \A s \in 1..UpSlots : ups[s] = None

recordsOf(p) ==
    {id \in DOMAIN files : filePath(files[id].user_id, files[id].filename) = p}

-----------------------------------------------------------------------------
(* C1 *)

\* C1: a download, delete or rename by user A of a file id that belongs to
\* another user is answered exactly as for an id that does not exist (404
\* 'File not found' for every well-formed request; a rename without a new
\* name is rejected before the lookup, for either kind of id) and leaves the
\* catalog and the artifacts unchanged; no such request changes anything or
\* sends bytes unless the (id, caller) lookup found the row.
C1_OwnershipIsolation ==
    [][\A t \in tokens, f \in FileIds, n \in NewNames :
          LET foreign == f \notin DOMAIN files \/ files[f].user_id # t.id
          IN  /\ (foreign /\ Download(t, f)) =>
                    /\ resp' = NotFound("download", t.id, f)
                    /\ UNCHANGED <<files, disk, downs>>
              /\ (foreign /\ DeleteFile(t, f)) =>
                    /\ resp' = NotFound("delete", t.id, f)
                    /\ UNCHANGED <<files, disk>>
              /\ (foreign /\ Rename(t, f, n)) =>
                    /\ n # "" => resp' = NotFound("rename", t.id, f)
                    /\ n = "" => ValidationError(resp')
                    /\ UNCHANGED <<files, disk>>
      ]_vars

C1_Witness ==
    /\ resp.op \in FileOps
    /\ resp.status = 404
    /\ resp.id \in DOMAIN files
    /\ files[resp.id].user_id # resp.user

-----------------------------------------------------------------------------
(* C2 *)

\* C2: whenever no upload is in progress, every file record has its artifact
\* in the owner's directory with the recorded size, and every artifact has
\* exactly one record.
C2_CatalogArtifactConsistency ==
    Quiescent =>
        /\ \A id \in DOMAIN files :
              LET p == filePath(files[id].user_id, files[id].filename)
              IN  p \in DOMAIN disk /\ Len(disk[p]) = files[id].size
        /\ \A p \in DOMAIN disk : Cardinality(recordsOf(p)) = 1

-----------------------------------------------------------------------------
(* C3 *)

\* C3: a catalog record is created only by a request all of whose files
\* multer has stored completely, and it carries the stored name and the size
\* of the file that request stored; a request whose write failed or went over
\* the size limit creates no record.
C3_UploadOrdering ==
    [][/\ \A id \in DOMAIN files' \ DOMAIN files :
             \E s \in 1..UpSlots :
                /\ ups[s] # None
                /\ ups'[s] = None
                /\ files'[id].user_id = ups[s].user
                /\ \E i \in 1..Len(ups[s].done) :
                      LET w == ups[s].done[i]
                      IN  /\ files'[id].filename = w.filename
                          /\ files'[id].size = Len(w.bytes)
       /\ \A s \in 1..UpSlots :
             (/\ ups[s] # None
              /\ ups'[s] = None
              /\ resp'.op = "upload"
              /\ resp'.error \in {"File size too large",
                                  "Something went wrong!"})
             => files' = files
      ]_vars

C3_Witness ==
    /\ resp.op = "upload"
    /\ resp.error \in {"File size too large", "Something went wrong!"}
    /\ DOMAIN files # {}

-----------------------------------------------------------------------------
(* C4 *)

\* C4: when the upload handler has answered 500 because an INSERT threw,
\* no artifact the request stored is left without a catalog record.
C4_UploadCompensation ==
    (resp.op = "upload" /\ resp.error = "Failed to upload files") =>
        \A w \in resp.wrote :
            filePath(resp.user, w) \in DOMAIN disk =>
                recordsOf(filePath(resp.user, w)) # {}

-----------------------------------------------------------------------------
(* C5 *)

\* C5: once a delete of file f has answered 200, f stays out of the catalog
\* for ever, every later download, delete and (well-formed) rename of f by
\* any user is answered 404 'File not found', and no list shows f.
C5_DeleteIsFinal ==
    [][/\ deleted \subseteq deleted'
       /\ deleted' \cap DOMAIN files' = {}
       /\ \A t \in tokens, f \in deleted, n \in NewNames \ {""} :
             /\ Download(t, f) => resp' = NotFound("download", t.id, f)
             /\ DeleteFile(t, f) => resp' = NotFound("delete", t.id, f)
             /\ Rename(t, f, n) => resp' = NotFound("rename", t.id, f)
       /\ \A t \in tokens :
             ListFiles(t) =>
                \A i \in DOMAIN resp'.files : resp'.files[i].id \notin deleted
      ]_vars

C5_Witness ==
    /\ resp.op \in FileOps
    /\ resp.id \in deleted
    /\ resp.status = 404

-----------------------------------------------------------------------------
(* C6 *)

\* C6 as claimed: a delete of an owned file never leaves the catalog record
\* in place, whatever happens to the artifact.
C6_DeleteConvergesCatalog ==
    [][\A t \in tokens, f \in DOMAIN files :
          (files[f].user_id = t.id /\ DeleteFile(t, f)) =>
              f \notin DOMAIN files'
      ]_vars

\* C6 as amended: a delete of an owned file either answers 200 with the
\* record and the artifact both gone (also when the artifact was already
\* absent), or, when removing the artifact fails, answers 500 and leaves the
\* record and the artifact in place.
C6_DeleteOutcome ==
    [][\A t \in tokens, f \in DOMAIN files :
          (files[f].user_id = t.id /\ DeleteFile(t, f)) =>
              LET p == filePath(t.id, files[f].filename)
              IN  \/ /\ resp'.status = 200
                     /\ f \notin DOMAIN files'
                     /\ p \notin DOMAIN disk'
                  \/ /\ resp'.status = 500
                     /\ p \in DOMAIN disk
                     /\ UNCHANGED <<files, disk>>
      ]_vars

C6_Witness ==
    /\ resp.op = "delete"
    /\ resp.status = 500
    /\ resp.id \in DOMAIN files

-----------------------------------------------------------------------------
(* C7 *)

\* C7: a rename answered 200 changes the display name of that one record to
\* the new name and nothing else: not its other columns, not another record,
\* not an artifact.
C7_RenameFrame ==
    [][\A t \in tokens, f \in FileIds, n \in NewNames :
          (Rename(t, f, n) /\ resp'.status = 200) =>
              /\ f \in DOMAIN files
              /\ DOMAIN files' = DOMAIN files
              /\ files'[f] = [files[f] EXCEPT !.original_name = n]
              /\ \A g \in DOMAIN files \ {f} : files'[g] = files[g]
              /\ disk' = disk
      ]_vars

C7_Witness ==
    /\ resp.op = "rename"
    /\ resp.status = 200
    /\ Cardinality(DOMAIN files) = 2
    /\ \E g \in DOMAIN files : files[g].original_name # resp.newName

-----------------------------------------------------------------------------
(* C8 *)

\* C8: a download by the owner of a file that is in the catalog (uploaded,
\* not deleted) is not refused, and sends the bytes that were uploaded and
\* the display name given at upload or by a later rename.
C8_RoundTrip ==
    [][/\ \A t \in tokens, f \in DOMAIN files :
             (files[f].user_id = t.id /\ Download(t, f)) =>
                /\ UNCHANGED resp
                /\ \E d \in downs' : d.user = t.id /\ d.id = f
       /\ \A d \in downs :
             (d.id \in DOMAIN files /\ DownloadSend(d)) =>
                /\ resp'.status = 200
                /\ resp'.bytes = sent[d.id].bytes
                /\ resp'.name \in {sent[d.id].name} \cup NewNames
      ]_vars

-----------------------------------------------------------------------------
(* C9 *)

\* C9: a register request (all fields present) with a password shorter than
\* 6 characters is answered ValidationError, and one with a valid password
\* and a username or email some user holds is answered ConflictError; either
\* way no user is created.  Usernames and emails are unique in every state.
C9_RegistrationValidation ==
    [][/\ \A s \in 1..RegSlots, u \in Usernames \ {""}, e \in Emails,
            p \in Passwords :
             Register(s, u, e, p) =>
                /\ Len(p) < 6 =>
                      /\ ValidationError(resp')
                      /\ UNCHANGED <<users, regs>>
                /\ (/\ Len(p) >= 6
                    /\ \E id \in DOMAIN users :
                          users[id].username = u \/ users[id].email = e) =>
                      /\ ConflictError(resp')
                      /\ UNCHANGED <<users, regs>>
       /\ \A i, j \in DOMAIN users' :
             i # j => /\ users'[i].username # users'[j].username
                      /\ users'[i].email # users'[j].email
      ]_vars

C9_Witness ==
    /\ resp.op = "register"
    /\ ConflictError(resp)
    /\ \E id \in DOMAIN users :
          users[id].username = resp.username /\ users[id].email # resp.email

-----------------------------------------------------------------------------
(* C10 *)

\* C10: a register request that passed validation either creates the one
\* user with its username and email (201) or is answered ConflictError, also
\* when another request with the same username or email was inserted between
\* its existence check and its own INSERT.
C10_RaceLoserConflict ==
    (resp.op = "register" /\ ~ValidationError(resp)) =>
        \/ ConflictError(resp)
        \/ /\ resp.status = 201
           /\ \A id \in DOMAIN users :
                 (users[id].username = resp.username
                    \/ users[id].email = resp.email) => id = resp.id

-----------------------------------------------------------------------------
(* C11 *)

\* C11: a login with the email and the password a user registered with is
\* answered 200 and issues a token for that user; /me with a token returns
\* the id, username and email of the users row, which is the row registration
\* stored (rows of users never change); a login with an unknown email or a
\* wrong password is answered 401 and issues no token.
C11_IdentityRoundTrip ==
    [][/\ \A id \in DOMAIN users : id \in DOMAIN users' /\ users'[id] = users[id]
       /\ \A s \in 1..RegSlots, e \in Emails, p \in Passwords :
             Login(s, e, p) =>
                IF \E id \in DOMAIN users : users[id].email = e
                THEN /\ regs'[s].op = "login"
                     /\ regs'[s].user \in Range(users)
                     /\ regs'[s].user.email = e
                     /\ UNCHANGED <<resp, tokens>>
                ELSE /\ resp'.status = 401
                     /\ UNCHANGED tokens
       /\ \A s \in 1..RegSlots :
             (regs[s].op = "login" /\ LoginCompare(s)) =>
                LET u == regs[s].user
                IN  IF u.password = Hash(regs[s].password)
                    THEN /\ resp'.status = 200
                         /\ resp'.token \in tokens'
                         /\ resp'.token.id = u.id
                         /\ resp'.token.username = u.username
                         /\ resp'.token.email = u.email
                         /\ resp'.user = [id |-> u.id,
                                          username |-> u.username,
                                          email |-> u.email]
                    ELSE /\ resp'.status = 401
                         /\ UNCHANGED tokens
       /\ \A t \in tokens :
             Me(t) =>
                /\ t.id \in DOMAIN users
                /\ resp'.status = 200
                /\ resp'.id = t.id
                /\ resp'.username = users[t.id].username
                /\ resp'.email = users[t.id].email
                /\ resp'.username = t.username
                /\ resp'.email = t.email
      ]_vars

\* /me has answered for a token that a login issued (the user holds an
\* older token, the one of the registration).
C11_Witness ==
    /\ resp.op = "me"
    /\ resp.status = 200
    /\ \E t \in tokens : t.id = resp.token.id /\ t.exp < resp.token.exp

-----------------------------------------------------------------------------
(* C12 *)

\* C12: no two file records of one user have the same stored name, and no
\* file multer stores takes the path of an artifact that is on disk already.
C12_StoredNameUnique ==
    [][/\ \A i, j \in DOMAIN files' :
             (i # j /\ files'[i].user_id = files'[j].user_id)
                => files'[i].filename # files'[j].filename
       /\ \A s \in 1..UpSlots :
             (/\ ups[s] # None
              /\ ups'[s] # None
              /\ Len(ups'[s].done) = Len(ups[s].done) + 1)
             => LET w == ups'[s].done[Len(ups'[s].done)]
                IN  filePath(ups[s].user, w.filename) \notin DOMAIN disk
      ]_vars

-----------------------------------------------------------------------------
(* C13 *)

\* C13: a token issued by a step carries the id, username and email of the
\* user and the expiry now + TOKEN_LIFETIME; at every time before its expiry
\* a request with it passes authenticateToken (/me and the list are served,
\* /me with 200), at its expiry and at every time after it the request is
\* refused and no handler runs; no step takes a token away from those that
\* pass or changes its expiry.
C13_TokenLifecycle ==
    [][/\ \A t \in tokens' \ tokens :
             /\ t.id \in DOMAIN users'
             /\ t.username = users'[t.id].username
             /\ t.email = users'[t.id].email
             /\ t.exp = now + TOKEN_LIFETIME
       /\ \A t \in tokens :
             /\ now < t.exp =>
                   /\ authenticateToken(t)
                   /\ ENABLED Me(t)
                   /\ ENABLED ListFiles(t)
                   /\ ~ENABLED Unauthorized(t)
             /\ now >= t.exp =>
                   /\ ~authenticateToken(t)
                   /\ ~ENABLED Me(t)
                   /\ ~ENABLED ListFiles(t)
                   /\ ENABLED Unauthorized(t)
             /\ Me(t) => resp'.status = 200
             /\ Unauthorized(t) => resp'.error = "TokenExpired"
             /\ t \in tokens'
             /\ now' < t.exp => authenticateToken(t)'
      ]_vars

\* A request with an expired token has been refused while a token the same
\* user got from a later login still passes.
C13_Witness ==
    /\ resp.op = "auth"
    /\ resp.error = "TokenExpired"
    /\ resp.token \in tokens
    /\ now >= resp.token.exp
    /\ \E t \in tokens : t.id = resp.token.id /\ authenticateToken(t)

-----------------------------------------------------------------------------
(* C14 *)

\* C14: a download never changes the catalog or the artifacts; it is answered
\* 404, and nothing is sent, when the caller has no record of the file or
\* the record's artifact is absent, both when the handler looks and when the
\* transfer reaches for the artifact; bytes are sent only from an artifact
\* that is there.
C14_DownloadFailurePoints ==
    [][/\ \A t \in tokens, f \in FileIds :
             Download(t, f) =>
                /\ UNCHANGED <<files, disk>>
                /\ (\/ getOwned(f, t.id) = {}
                    \/ filePath(t.id, files[f].filename) \notin DOMAIN disk)
                   => /\ resp'.op = "download"
                      /\ resp'.status = 404
                      /\ UNCHANGED downs
       /\ \A d \in downs :
             DownloadSend(d) =>
                /\ UNCHANGED <<files, disk>>
                /\ resp'.op = "download"
                /\ d.path \notin DOMAIN disk => resp'.status = 404
                /\ d.path \in DOMAIN disk =>
                      resp'.status = 200 /\ resp'.bytes = disk[d.path]
      ]_vars

-----------------------------------------------------------------------------
(* C15 *)

\* C15: the list of user u holds every record of u once and no record of
\* another user, and of any two records in it the one uploaded later (the
\* one with the larger id) comes first, also when both have the same
\* upload_date.  Stated for the catalogs whose stored names differ, so that
\* the order is judged apart from C12.
C15_ListNewestFirst ==
    [][\A t \in tokens :
          (/\ ListFiles(t)
           /\ \A i, j \in DOMAIN files :
                 i # j => files[i].filename # files[j].filename)
          => LET q == resp'.files
             IN  /\ {q[i].id : i \in DOMAIN q}
                       = {id \in DOMAIN files : files[id].user_id = t.id}
                 /\ \A i, j \in DOMAIN q : i < j => q[i].id > q[j].id
      ]_vars

-----------------------------------------------------------------------------
(* C16 *)

\* C16: renames and deletes of one file by its owner take effect one after
\* the other in the order the handlers run: a rename of a record that is
\* there sets its display name and nothing else, a rename that comes after
\* the delete is answered 404 and writes nothing, a delete leaves the record
\* whole or removes it.  So a record that is in the catalog has every column
\* as inserted but the display name, which is the one of the last rename,
\* and no record comes back once its delete has answered 200.
C16_SameFileSerial ==
    [][/\ \A f \in DOMAIN files' :
             /\ f \notin deleted'
             /\ f \in DOMAIN files =>
                   /\ [files'[f] EXCEPT !.original_name = ""]
                         = [files[f] EXCEPT !.original_name = ""]
                   /\ \/ files'[f].original_name = files[f].original_name
                      \/ \E t \in tokens :
                            Rename(t, f, files'[f].original_name)
             /\ f \notin DOMAIN files => f > fileSeq
       /\ \A t \in tokens, f \in FileIds, n \in NewNames \ {""} :
             /\ Rename(t, f, n) =>
                   IF f \in DOMAIN files
                   THEN files' = [files EXCEPT ![f].original_name = n]
                   ELSE files' = files /\ resp' = NotFound("rename", t.id, f)
             /\ DeleteFile(t, f) =>
                   \/ files' = files /\ resp'.status \in {404, 500}
                   \/ /\ f \in DOMAIN files
                      /\ files' = Drop(files, {f})
                      /\ resp'.status = 200
      ]_vars

\* A rename has lost against the delete of the same file.
C16_Witness ==
    /\ resp.op = "rename"
    /\ resp.status = 404
    /\ resp.id \in deleted
    /\ resp.id \notin DOMAIN files

-----------------------------------------------------------------------------
(* C17 *)

\* C17: an upload answered 201 had n files, 1 <= n <= MAX_COUNT, and created
\* exactly n records with new ids, the i-th owned by the caller and carrying
\* the stored name, display name, size and content type of the i-th file,
\* changed no other record, and its answer has one entry per file with the
\* id of its record; an upload with no file is answered ValidationError and
\* creates no record.
C17_UploadResult ==
    [][\A s \in 1..UpSlots :
          (ups[s] # None /\ UploadHandler(s)) =>
             LET u == ups[s]
                 n == Len(u.done)
                 new == DOMAIN files' \ DOMAIN files
             IN  /\ n = 0 => ValidationError(resp') /\ files' = files
                 /\ resp'.status = 201 =>
                       /\ n \in 1..MAX_COUNT
                       /\ Cardinality(new) = n
                       /\ Len(resp'.files) = n
                       /\ \A id \in DOMAIN files : files'[id] = files[id]
                       /\ \A i, j \in 1..n :
                             i # j => resp'.files[i].id # resp'.files[j].id
                       /\ \A i \in 1..n :
                             LET e == resp'.files[i]
                                 w == u.done[i]
                             IN  /\ e.id \in new
                                 /\ e.id \notin deleted
                                 /\ files'[e.id].id = e.id
                                 /\ files'[e.id].user_id = u.user
                                 /\ files'[e.id].filename = w.filename
                                 /\ files'[e.id].original_name = w.originalname
                                 /\ files'[e.id].size = Len(w.bytes)
                                 /\ files'[e.id].mimetype = w.mimetype
                                 /\ e.filename = w.filename
                                 /\ e.originalName = w.originalname
                                 /\ e.size = Len(w.bytes)
                                 /\ e.mimetype = w.mimetype
      ]_vars

\* A two-file upload has answered 201.
C17_Witness ==
    /\ resp.op = "upload"
    /\ resp.status = 201
    /\ Len(resp.files) = 2
    /\ \A i \in 1..2 : resp.files[i].id \in DOMAIN files

-----------------------------------------------------------------------------
(* C18 *)

\* C18: every id a step assigns is larger than every id assigned before
\* (those in the catalog and those deleted), so the id of a deleted file is
\* never given to a later upload of any user.
C18_IdsNeverReused ==
    [][/\ fileSeq' >= fileSeq
       /\ \A id \in DOMAIN files \cup deleted : id <= fileSeq
       /\ \A id \in DOMAIN files' \ DOMAIN files :
             /\ id > fileSeq
             /\ id <= fileSeq'
             /\ id \notin deleted
             /\ \A g \in DOMAIN files \cup deleted : g < id
       /\ \A id \in deleted : id \notin DOMAIN files'
      ]_vars

\* An upload has got its id after an earlier file was deleted.
C18_Witness ==
    /\ resp.op = "upload"
    /\ resp.status = 201
    /\ deleted # {}
    /\ \A i \in DOMAIN resp.files :
          /\ resp.files[i].id \in DOMAIN files
          /\ \A g \in deleted : g < resp.files[i].id

-----------------------------------------------------------------------------
(* C19 *)

\* The step changes no record of a user other than a and no artifact outside
\* the directory of a, and the records it creates belong to a.
OthersUntouched(a) ==
    /\ \A id \in DOMAIN files :
          files[id].user_id # a => id \in DOMAIN files' /\ files'[id] = files[id]
    /\ \A id \in DOMAIN files' \ DOMAIN files : files'[id].user_id = a
    /\ \A p \in DOMAIN disk : p[1] # a => p \in DOMAIN disk' /\ disk'[p] = disk[p]
    /\ \A p \in DOMAIN disk' \ DOMAIN disk : p[1] = a

\* C19: every step of an upload, a rename, a delete, a download or a list of
\* user A, whatever it is given and however it ends, leaves the records and
\* the artifacts of every other user as they were (a step that changes
\* neither the catalog nor the artifacts does so at once).
C19_CrossUserFrame ==
    [][\/ files' = files /\ disk' = disk
       \/ /\ \A s \in 1..UpSlots :
                (ups[s] # None /\ ups'[s] # ups[s])
                   => OthersUntouched(ups[s].user)
          /\ \A t \in tokens, f \in FileIds, n \in NewNames :
                /\ Download(t, f) => OthersUntouched(t.id)
                /\ DeleteFile(t, f) => OthersUntouched(t.id)
                /\ Rename(t, f, n) => OthersUntouched(t.id)
          /\ \A d \in downs : DownloadSend(d) => OthersUntouched(d.user)
          /\ \A s \in 1..UpSlots, t \in tokens :
                UploadStart(s, t) => OthersUntouched(t.id)
          /\ \A t \in tokens : ListFiles(t) => OthersUntouched(t.id)
      ]_vars

\* A rename or a delete of one user has succeeded while another user has a
\* record and its artifact.
C19_Witness ==
    /\ resp.op \in {"rename", "delete"}
    /\ resp.status = 200
    /\ \E id \in DOMAIN files :
          /\ files[id].user_id # resp.user
          /\ filePath(files[id].user_id, files[id].filename) \in DOMAIN disk

-----------------------------------------------------------------------------
(* C20 *)

\* C20: a rename without a new name is answered ValidationError whatever the
\* file id (the name is checked before the lookup); a rename, a delete or a
\* download that is answered 400 or 404 leaves the whole catalog and all
\* artifacts as they were, and starts no transfer.
C20_RejectedChangesNothing ==
    [][\A t \in tokens, f \in FileIds :
          /\ \A n \in NewNames :
                Rename(t, f, n) =>
                   /\ n = "" => ValidationError(resp')
                   /\ resp'.status \in {400, 404} => UNCHANGED <<files, disk>>
          /\ (DeleteFile(t, f) /\ resp'.status = 404) =>
                UNCHANGED <<files, disk>>
          /\ (/\ Download(t, f)
              /\ \/ getOwned(f, t.id) = {}
                 \/ filePath(t.id, files[f].filename) \notin DOMAIN disk)
             => /\ resp'.status = 404
                /\ UNCHANGED <<files, disk, downs>>
      ]_vars

\* A rename of a file the caller owns has been rejected for its empty name.
C20_Witness ==
    /\ resp.op = "rename"
    /\ ValidationError(resp)
    /\ resp.id \in DOMAIN files
    /\ files[resp.id].user_id = resp.user
    /\ files[resp.id].original_name # ""

====
